---------------------------- MODULE Spec2Model ----------------------------
(***************************************************************************)
(* amqp-tools: the two command line programs amqp-publish (publish.js)     *)
(* and amqp-consume (consume.js), each modelled as the state machine of    *)
(* its callbacks.  Node runs one callback at a time, so every callback     *)
(* (a promise continuation, a stream event, a signal handler, a message    *)
(* delivery) is one atomic action.  The broker, the input stream and the   *)
(* operating system are the environment: they choose which callback runs   *)
(* next.                                                                   *)
(*                                                                         *)
(* PublishSpec is the publish session, ConsumeSpec the consume session.    *)
(***************************************************************************)
EXTENDS Integers, Sequences, FiniteSets, TLC

VARIABLES
    \* ---- both programs
    pc,                 \* position in the set-up promise chain
    exitStatus,         \* "running", or how the process ended
    connection,         \* let connection: "undefined" | "open" | "closing" | "closed"
    opts,               \* the parsed command line options
    specs,              \* parseSpecs(opts._unknown): [queues, bindings]
    calls,              \* how often each broker call has been issued
    failed,             \* a broker call was rejected or an error event was emitted
    \* ---- publish.js
    publisher,          \* let publisher: "undefined" | "open" | "closing" | "closed"
    stdin,              \* text the input stream has not delivered yet
    received,           \* text delivered to the data listeners so far
    flowing,            \* process.stdin: "initial" | "flowing" | "paused"
    stdinEnded,         \* the 'end' listeners have run
    readMode,           \* readAndPublish's readMode: "null" or the first character
    sBuffer,            \* readAndPublish's sBuffer
    waitingForConfirm,
    waitingForData,
    interruptsReceived,
    inFlight,           \* one entry per pending Promise.map of publish()
    published,          \* the non-array values publish() has handled, in order
    sent,               \* the publishAsync calls issued, in order: [value, route]
    quitStage,          \* position in checkForQuit's latest close chain
    \* ---- consume.js
    consumer,           \* let consumer: "undefined" | "open" | "closing" | "closed"
    consumerTags,
    counter,
    info,               \* the checkQueue replies
    prefetch,           \* the count given to consumer.prefetch, or NoPrefetch
    handlers,           \* shutdown is registered for SIGINT and SIGTERM
    immediates,         \* pending setImmediate(shutdown) callbacks
    scheduled,          \* the deliveries whose gotMessage called setImmediate(shutdown)
    shutdowns,          \* one entry per running shutdown() promise chain
    drains,             \* what called shutdown(), one entry per call
    cancelled,          \* the broker has confirmed the cancellation of every tag
    delivered,          \* number of gotMessage callbacks run
    output,             \* what has been written to process.stdout
    acked,              \* deliveries acknowledged one by one with consumer.ack
    \* ---- parseSpecs.js and convertContent of consume.js
    argv,               \* the specification tokens of the command line
    parsed,             \* "none", or what parseSpecifications(argv) returned
    declared,           \* contentType and contentEncoding of a message as delivered
    props,              \* msg.properties, which convertContent changes in place
    converted           \* "none", or the conversion convertContent applied

commonVars  == <<pc, exitStatus, connection, opts, specs, calls, failed>>
publishVars == <<publisher, stdin, received, flowing, stdinEnded, readMode,
                 sBuffer, waitingForConfirm, waitingForData,
                 interruptsReceived, inFlight, published, sent, quitStage>>
consumeVars == <<consumer, consumerTags, counter, info, prefetch, handlers,
                 immediates, scheduled, shutdowns, drains, cancelled, delivered,
                 output, acked>>
toolVars    == <<argv, parsed, declared, props, converted>>
vars == <<commonVars, publishVars, consumeVars, toolVars>>

-----------------------------------------------------------------------------
(* Bounds of the model *)

\* input lines of a newline-separated input
MaxLines == 2
\* message deliveries in one consume session
MaxDeliveries == 3
\* messageCount a checkQueue reply may report
MaxCount == 2

-----------------------------------------------------------------------------
(* Text.  A text is a sequence of one-character strings.  The JSON of the  *)
(* model: a digit is a number, "{" digit "}" is an object without          *)
(* metadata, "{" digit "e" "}" is an object with fields, properties and    *)
(* content (a message envelope as amqp-consume writes it), and             *)
(* "[" value "," ... "]" is an array.                                      *)

DigitChars == <<"1", "2", "3", "4", "5", "6", "7", "8", "9">>

IsDigit(c) == \E i \in 1..Len(DigitChars) : DigitChars[i] = c

DigitValue(c) == CHOOSE i \in 1..Len(DigitChars) : DigitChars[i] = c

Num(n)      == [t |-> "num", id |-> n, env |-> FALSE, elems |-> <<>>]
Obj(n, e)   == [t |-> "obj", id |-> n, env |-> e, elems |-> <<>>]
Arr(es)     == [t |-> "arr", id |-> 0, env |-> FALSE, elems |-> es]
SyntaxError == [ok |-> FALSE, val |-> Num(0), next |-> 0]

WhiteSpace == {" ", "\n", "\r", "\t"}

RECURSIVE SkipSpace(_, _)
\* the first position from i on that holds no white space
SkipSpace(s, i) ==
    IF i <= Len(s) /\ s[i] \in WhiteSpace THEN SkipSpace(s, i + 1) ELSE i

RECURSIVE ParseToken(_, _)
RECURSIVE ParseElements(_, _, _)

\* one JSON value with the white space around it: [ok, val, next]
ParseValue(s, i) ==
    LET v == ParseToken(s, SkipSpace(s, i)) IN
    IF v.ok THEN [v EXCEPT !.next = SkipSpace(s, v.next)] ELSE v

\* the elements of an array after "[": s[i] starts an element
ParseElements(s, i, acc) ==
    LET v == ParseValue(s, i) IN
    IF ~v.ok \/ v.next > Len(s) THEN SyntaxError
    ELSE IF s[v.next] = "]"
         THEN [ok |-> TRUE, val |-> Arr(Append(acc, v.val)), next |-> v.next + 1]
    ELSE IF s[v.next] = ","
         THEN ParseElements(s, v.next + 1, Append(acc, v.val))
    ELSE SyntaxError

\* one JSON value starting at s[i], which is no white space
ParseToken(s, i) ==
    IF i > Len(s) THEN SyntaxError
    ELSE IF IsDigit(s[i])
         THEN [ok |-> TRUE, val |-> Num(DigitValue(s[i])), next |-> i + 1]
    ELSE IF s[i] = "{"
         THEN IF i + 2 <= Len(s) /\ IsDigit(s[i+1]) /\ s[i+2] = "}"
              THEN [ok |-> TRUE, val |-> Obj(DigitValue(s[i+1]), FALSE), next |-> i + 3]
              ELSE IF i + 3 <= Len(s) /\ IsDigit(s[i+1]) /\ s[i+2] = "e" /\ s[i+3] = "}"
              THEN [ok |-> TRUE, val |-> Obj(DigitValue(s[i+1]), TRUE), next |-> i + 4]
              ELSE SyntaxError
    ELSE IF s[i] = "["
         THEN IF SkipSpace(s, i + 1) <= Len(s) /\ s[SkipSpace(s, i + 1)] = "]"
              THEN [ok |-> TRUE, val |-> Arr(<<>>), next |-> SkipSpace(s, i + 1) + 1]
              ELSE ParseElements(s, i + 1, <<>>)
    ELSE SyntaxError

\* JSON.parse(text): the whole text is one value, or it throws
JSONparse(s) ==
    LET v == ParseValue(s, 1) IN
    IF v.ok /\ v.next = Len(s) + 1 THEN [ok |-> TRUE, val |-> v.val]
    ELSE [ok |-> FALSE, val |-> Num(0)]

RECURSIVE SplitFrom(_, _, _, _)
\* the pieces of s from position i on; the piece being read starts at from
SplitFrom(s, i, from, acc) ==
    IF i > Len(s) THEN Append(acc, SubSeq(s, from, Len(s)))
    ELSE IF s[i] = "\r" /\ i < Len(s) /\ s[i+1] = "\n"
         THEN SplitFrom(s, i + 2, i + 2, Append(acc, SubSeq(s, from, i - 1)))
    ELSE IF s[i] = "\n" \/ s[i] = "\r"
         THEN SplitFrom(s, i + 1, i + 1, Append(acc, SubSeq(s, from, i - 1)))
    ELSE SplitFrom(s, i + 1, from, acc)

\* s.split(/\r\n|\n|\r/)
SplitLines(s) == SplitFrom(s, 1, 1, <<>>)


-----------------------------------------------------------------------------
(* parseSpecs.js: a token of the command line is a text, as above *)

RECURSIVE RunEnd(_, _)
\* [^\/]+ tried at s[i]: the position after the longest run without "/"
\* (i itself when there is none)
RunEnd(s, i) ==
    IF i <= Len(s) /\ s[i] # "/" THEN RunEnd(s, i + 1) ELSE i

RECURSIVE RoutesEnd(_, _)
\* (?:\/[^\/]+)+ tried at s[i]: the position after the last group matched
\* (i itself when no group matches)
RoutesEnd(s, i) ==
    IF i < Len(s) /\ s[i] = "/" /\ RunEnd(s, i + 1) > i + 1
    THEN RoutesEnd(s, RunEnd(s, i + 1))
    ELSE i

\* RX.Binding.exec(spec): /^([^\/]+)((?:\/[^\/]+)+)$/
Binding_exec(spec) ==
    LET e == RunEnd(spec, 1)
        r == RoutesEnd(spec, e)
    IN  IF e > 1 /\ r > e /\ r = Len(spec) + 1
        THEN [match |-> TRUE, m1 |-> SubSeq(spec, 1, e - 1),
              m2 |-> SubSeq(spec, e, Len(spec))]
        ELSE [match |-> FALSE, m1 |-> <<>>, m2 |-> <<>>]

RECURSIVE MatchFrom(_, _)
\* the matches of /\/[^\/]+/g in s from position i on, in order
MatchFrom(s, i) ==
    IF i > Len(s) THEN <<>>
    ELSE IF s[i] = "/" /\ RunEnd(s, i + 1) > i + 1
         THEN <<SubSeq(s, i, RunEnd(s, i + 1) - 1)>> \o MatchFrom(s, RunEnd(s, i + 1))
    ELSE MatchFrom(s, i + 1)

\* match[2].match(RX.Route) keeping only the first route
firstRouteOnly(s) == SubSeq(MatchFrom(s, 1), 1, 1)

\* match[2].match(RX.Route)
Route_match(s) == MatchFrom(s, 1)

\* the bindSpecs pushed for one matching spec
bindSpecsOf(m) ==
    [k \in 1..Len(Route_match(m.m2)) |->
        [exchange |-> m.m1, routingKey |-> Tail(Route_match(m.m2)[k])]]

RECURSIVE parseSpecifications(_)
\* module.exports = function parseSpecifications (specs)
parseSpecifications(tokens) ==
    IF tokens = <<>> THEN [queues |-> <<>>, bindings |-> <<>>]
    ELSE LET m    == Binding_exec(Head(tokens))
             rest == parseSpecifications(Tail(tokens))
         IN  IF m.match
             THEN [queues |-> rest.queues, bindings |-> bindSpecsOf(m) \o rest.bindings]
             ELSE [queues |-> <<Head(tokens)>> \o rest.queues, bindings |-> rest.bindings]

NotParsed == [called |-> FALSE, queues |-> <<>>, bindings |-> <<>>]

-----------------------------------------------------------------------------
(* convertContent and createJSON of consume.js.  A content type and a      *)
(* content encoding are texts; the empty text stands for a property that   *)
(* is not set (undefined and '' take the same branches).                   *)

UpperCaseLetters == <<"A", "B", "C", "D", "E", "F", "G", "H", "I", "J", "K", "L", "M",
                      "N", "O", "P", "Q", "R", "S", "T", "U", "V", "W", "X", "Y", "Z">>
LowerCaseLetters == <<"a", "b", "c", "d", "e", "f", "g", "h", "i", "j", "k", "l", "m",
                      "n", "o", "p", "q", "r", "s", "t", "u", "v", "w", "x", "y", "z">>

Digits == {"0", "1", "2", "3", "4", "5", "6", "7", "8", "9"}

\* cEnc.toLowerCase()
toLowerCase(str) ==
    [i \in 1..Len(str) |->
        IF \E k \in 1..26 : UpperCaseLetters[k] = str[i]
        THEN LowerCaseLetters[CHOOSE k \in 1..26 : UpperCaseLetters[k] = str[i]]
        ELSE str[i]]

\* [a-z0-9]
IsLowerAlnum(c) == c \in Digits \/ \E k \in 1..26 : LowerCaseLetters[k] = c

\* .replace(/[^a-z0-9]/g, '')
replaceNonAlnum(str) == SelectSeq(str, IsLowerAlnum)

E_utf8    == <<"u", "t", "f", "8">>
E_hex     == <<"h", "e", "x">>
E_ascii   == <<"a", "s", "c", "i", "i">>
E_utf16le == <<"u", "t", "f", "1", "6", "l", "e">>
E_ucs2    == <<"u", "c", "s", "2">>
E_binary  == <<"b", "i", "n", "a", "r", "y">>
E_base64  == <<"b", "a", "s", "e", "6", "4">>

T_json    == <<"a", "p", "p", "l", "i", "c", "a", "t", "i", "o", "n", "/", "j", "s", "o", "n">>
T_octet   == <<"a", "p", "p", "l", "i", "c", "a", "t", "i", "o", "n", "/", "o", "c", "t", "e", "t", "-", "s", "t", "r", "e", "a", "m">>

StartsWith(str, prefix) ==
    Len(prefix) <= Len(str) /\ SubSeq(str, 1, Len(prefix)) = prefix

\* convertContent leaving no trace of an unknown encoding
convertContentWithoutTrace(p) ==
    LET cEnc == replaceNonAlnum(toLowerCase(p.contentEncoding)) IN
    IF cEnc = <<>> /\ StartsWith(p.contentType, T_json)
         THEN [contentEncoding |-> E_utf8,   toString |-> "utf8"]
    ELSE IF cEnc \in {E_hex, E_ascii, E_utf8}
         THEN [contentEncoding |-> cEnc,     toString |-> "ascii"]
    ELSE IF cEnc = E_utf16le \/ cEnc = E_ucs2
         THEN [contentEncoding |-> E_utf8,   toString |-> "utf16le"]
    ELSE [contentEncoding |-> E_base64, toString |-> "base64"]

\* convertContent(buff, props): the contentEncoding it writes to props and
\* the conversion of the buffer it returns
convertContent(p) ==
    LET cEnc == replaceNonAlnum(toLowerCase(p.contentEncoding)) IN
    IF cEnc = <<>> /\ StartsWith(p.contentType, T_json)
         THEN [contentEncoding |-> E_utf8,   toString |-> "utf8"]
    ELSE IF cEnc = E_hex
         THEN [contentEncoding |-> E_hex,    toString |-> "ascii"]
    ELSE IF cEnc = E_ascii
         THEN [contentEncoding |-> E_ascii,  toString |-> "ascii"]
    ELSE IF cEnc = E_utf8
         THEN [contentEncoding |-> E_utf8,   toString |-> "utf8"]
    ELSE IF cEnc = E_utf16le \/ cEnc = E_ucs2
         THEN [contentEncoding |-> E_utf8,   toString |-> "utf16le"]
    ELSE IF cEnc = E_binary
         THEN [contentEncoding |-> E_base64, toString |-> "base64"]
    ELSE IF cEnc = E_base64
         THEN [contentEncoding |-> E_base64, toString |-> "ascii"]
    ELSE [contentEncoding |-> IF cEnc # <<>> THEN E_base64 \o <<",">> \o cEnc
                              ELSE E_base64,
          toString |-> "base64"]

NoProps == [contentType |-> <<>>, contentEncoding |-> <<>>]

NotConverted == [called |-> FALSE, toString |-> "none", parse |-> FALSE]

\* parseSpecs.js and the content decoder are idle
ToolIdle ==
    /\ argv = <<>>
    /\ parsed = NotParsed
    /\ declared = NoProps
    /\ props = NoProps
    /\ converted = NotConverted

-----------------------------------------------------------------------------
(* Inputs of the publish session *)

Terminators == {<<"\n">>, <<"\r", "\n">>, <<"\r">>}

\* the i-th line of a newline-separated input: an object, with metadata
\* when i is odd
Line(i) == IF i % 2 = 1 THEN <<"{", DigitChars[i], "e", "}">>
                        ELSE <<"{", DigitChars[i], "}">>

RECURSIVE LinesText(_, _)
\* the texts made of the lines i..n, each line but the last one terminated
LinesText(i, n) ==
    IF i = n THEN {Line(n) \o t : t \in Terminators \cup {<<>>}}
    ELSE {Line(i) \o t \o rest : t \in Terminators, rest \in LinesText(i + 1, n)}

StreamTexts == UNION {LinesText(1, n) : n \in 1..MaxLines}

BatchTexts == { \* two messages as amqp-consume writes them with indentation
                <<"[", "\n", " ", "{", "1", "e", "}", "\n", ",", "{", "2", "}",
                  "\n", "]", "\n">>,
                <<"[", "{", "1", "e", "}", ",", "{", "2", "}", "]", "\n">>,
                <<"[", "[", "{", "1", "e", "}", "]", ",", "2", "]">>,
                <<"[", "]">> }

OtherTexts == { <<>>,
                \* not "[" and not "{": incorrect usage
                <<"1", "\n">>,
                \* an array as a line of a stream
                <<"{", "1", "}", "\n", "[", "{", "2", "}", ",", "3", "]", "\n">>,
                \* a truncated last line
                <<"{", "1", "e", "}", "\n", "{", "2">>,
                \* three lines, the last one without a terminator
                <<"{", "1", "e", "}", "\n", "{", "2", "}", "\r", "\n",
                  "{", "3", "e", "}">> }

StdinTexts == StreamTexts \cup BatchTexts \cup OtherTexts

NoName == [kind |-> "empty", of |-> 0]

PublishSpecs == { [queues |-> <<>>, bindings |-> <<>>],
                  [queues |-> << [kind |-> "cli.queue", of |-> 1] >>,
                   bindings |-> <<>>],
                  [queues |-> << [kind |-> "cli.queue", of |-> 1] >>,
                   bindings |-> << [exchange   |-> [kind |-> "cli.exchange", of |-> 1],
                                    routingKey |-> [kind |-> "cli.route", of |-> 1]] >>] }

\* opts.queue is read only when opts.nometa is false
PublishOpts == {o \in [nometa : BOOLEAN, queue : BOOLEAN] : ~(o.nometa /\ o.queue)}

CallNames == {"connect", "createChannel", "publish", "close", "connection.close",
              "prefetch", "checkQueue", "assertQueue", "bindQueue", "consume",
              "cancel", "ack", "ackAll"}

NoCalls == [c \in CallNames |-> 0]

Called(c, n) == [calls EXCEPT ![c] = @ + n]

NoPrefetch == -2

\* consume.js is idle in a publish session
ConsumeIdle ==
    /\ consumer = "undefined"
    /\ consumerTags = <<>>
    /\ counter = 0
    /\ info = <<>>
    /\ prefetch = NoPrefetch
    /\ handlers = FALSE
    /\ immediates = 0
    /\ scheduled = {}
    /\ shutdowns = <<>>
    /\ drains = <<>>
    /\ cancelled = FALSE
    /\ delivered = 0
    /\ output = <<>>
    /\ acked = {}

PublishInit ==
    /\ pc = "connecting"
    /\ exitStatus = "running"
    /\ connection = "undefined"
    /\ opts \in PublishOpts
    /\ specs \in PublishSpecs
    /\ calls = [NoCalls EXCEPT !["connect"] = 1]
    /\ failed = FALSE
    /\ publisher = "undefined"
    /\ stdin \in StdinTexts
    /\ received = <<>>
    /\ flowing = "initial"
    /\ stdinEnded = FALSE
    /\ readMode = "null"
    /\ sBuffer = <<>>
    /\ waitingForConfirm = 0
    /\ waitingForData = TRUE
    /\ interruptsReceived = 0
    /\ inFlight = <<>>
    /\ published = <<>>
    /\ sent = <<>>
    /\ quitStage = "none"
    /\ ConsumeIdle
    /\ ToolIdle

-----------------------------------------------------------------------------
(* publish.js *)

Running == exitStatus = "running"

\* let cliRoutes = specs.bindings.concat(specs.queues.map(...))
cliRoutes ==
    specs.bindings \o
    [i \in 1..Len(specs.queues) |-> [exchange |-> NoName, routingKey |-> specs.queues[i]]]

\* let hasMetadata = obj.fields && obj.properties && obj.content
hasMetadata(obj) == obj.t = "obj" /\ obj.env

\* the routes of publish(obj) without the test of opts.nometa
routesOfWithMetadataAlways(obj) ==
    cliRoutes \o
    (IF hasMetadata(obj)
     THEN << [exchange   |-> IF opts.queue THEN NoName
                             ELSE [kind |-> "fields.exchange", of |-> obj.id],
              routingKey |-> IF opts.queue THEN [kind |-> "queue", of |-> obj.id]
                             ELSE [kind |-> "fields.routingKey", of |-> obj.id]] >>
     ELSE <<>>)

\* the routes publish(obj) sends a non-array obj to
routesOf(obj) ==
    cliRoutes \o
    (IF hasMetadata(obj) /\ ~opts.nometa
     THEN << [exchange   |-> IF opts.queue THEN NoName
                             ELSE [kind |-> "fields.exchange", of |-> obj.id],
              routingKey |-> IF opts.queue THEN [kind |-> "queue", of |-> obj.id]
                             ELSE [kind |-> "fields.routingKey", of |-> obj.id]] >>
     ELSE <<>>)

RECURSIVE Flatten(_)
\* the non-array values publish(obj) reaches through obj.forEach(publish)
Flatten(obj) ==
    IF obj.t # "arr" THEN <<obj>>
    ELSE IF obj.elems = <<>> THEN <<>>
    ELSE Flatten(Head(obj.elems)) \o Flatten(Arr(Tail(obj.elems)))

RECURSIVE FlattenAll(_)
FlattenAll(objs) ==
    IF objs = <<>> THEN <<>> ELSE Flatten(Head(objs)) \o FlattenAll(Tail(objs))

\* the Promise.map of one publish(): its publishAsync calls not yet confirmed
Pending(obj) == [left |-> Len(routesOf(obj)), rejected |-> FALSE]

RECURSIVE SumRoutes(_)
SumRoutes(objs) ==
    IF objs = <<>> THEN 0 ELSE Len(routesOf(Head(objs))) + SumRoutes(Tail(objs))

RECURSIVE Issued(_)
\* the publishAsync calls of publish(obj) for the non-array values objs: for
\* each value one call per route, in the order of routes
Issued(objs) ==
    IF objs = <<>> THEN <<>>
    ELSE [i \in 1..Len(routesOf(Head(objs))) |->
             [value |-> Head(objs), route |-> routesOf(Head(objs))[i]]]
         \o Issued(Tail(objs))

\* publish(obj) counting an array as one value: waitingForConfirm += 1 before
\* obj.forEach(publish)
publishCountingArrays(objs) ==
    LET leaves == FlattenAll(objs) IN
    /\ waitingForConfirm' = waitingForConfirm + Len(objs)
    /\ inFlight' = inFlight \o [i \in 1..Len(leaves) |-> Pending(leaves[i])]
    /\ published' = published \o leaves
    /\ sent' = sent \o Issued(leaves)

\* publish(obj) for each obj of objs, in order: waitingForConfirm += 1 and
\* one Promise.map of publishAsync calls for every non-array value reached
publish(objs) ==
    LET leaves == FlattenAll(objs) IN
    /\ waitingForConfirm' = waitingForConfirm + Len(leaves)
    /\ inFlight' = inFlight \o [i \in 1..Len(leaves) |-> Pending(leaves[i])]
    /\ published' = published \o leaves
    /\ sent' = sent \o Issued(leaves)

\* the longest prefix of lines that JSON.parse accepts, parsed
RECURSIVE ParsedPrefix(_)
ParsedPrefix(lines) ==
    IF lines = <<>> THEN <<>>
    ELSE LET p == JSONparse(Head(lines)) IN
         IF p.ok THEN <<p.val>> \o ParsedPrefix(Tail(lines)) ELSE <<>>


\* function exit (err): console.error, process.exit(1)
exit == exitStatus' = "exit1"

\* checkForQuit without its test of waitingForConfirm
checkForQuitIgnoringConfirms(interrupts, forData, forConfirm) ==
    IF interrupts > 1 THEN "Forced Quit"
    ELSE IF forData THEN "return"
    ELSE "close"

\* checkForQuit forcing the exit one interrupt later
checkForQuitOnThirdInterrupt(interrupts, forData, forConfirm) ==
    IF interrupts > 2 THEN "Forced Quit"
    ELSE IF forData THEN "return"
    ELSE IF forConfirm # 0 THEN "return"
    ELSE "close"

\* checkForQuit's branch, from the values the variables have when it is called
checkForQuit(interrupts, forData, forConfirm) ==
    IF interrupts > 1 THEN "Forced Quit"
    ELSE IF forData THEN "return"
    ELSE IF forConfirm # 0 THEN "return"
    ELSE "close"

\* the rest of checkForQuit: Promise.try(publisher.close) ... .catch(exit);
\* publishes is the number of publishAsync calls the callback has issued.
\* publisher.close() throws when publisher is undefined (a TypeError) and
\* when the channel is closing or closed (amqplib's IllegalOperationError).
quit(branch, publishes) ==
    /\ exitStatus' = IF branch = "Forced Quit" \/ (branch = "close" /\ publisher # "open")
                     THEN "exit1" ELSE exitStatus
    /\ publisher' = IF branch = "close" /\ publisher = "open" THEN "closing" ELSE publisher
    /\ quitStage' = IF branch # "close" THEN quitStage
                    ELSE IF publisher = "open" THEN "closingChannel"
                    ELSE "closeThrew"
    /\ calls' = [calls EXCEPT !["publish"] = @ + publishes,
                              !["close"] = @ + IF branch = "close" /\ publisher # "undefined"
                                               THEN 1 ELSE 0]

\* AMQP.connect resolved: connection = conn.on('error', exit); createConfirmChannel
connected ==
    /\ Running /\ pc = "connecting"
    /\ connection' = "open"
    /\ pc' = "creatingChannel"
    /\ calls' = Called("createChannel", 1)
    /\ UNCHANGED <<exitStatus, opts, specs, failed, publishVars, consumeVars,
                   toolVars>>

\* createConfirmChannel resolved: publisher = ch, then readAndPublish() puts
\* the listeners on process.stdin, which starts to flow unless it was paused
readAndPublish ==
    /\ Running /\ pc = "creatingChannel"
    /\ publisher' = "open"
    /\ pc' = "reading"
    /\ flowing' = IF flowing = "paused" THEN "paused" ELSE "flowing"
    /\ UNCHANGED <<exitStatus, connection, opts, specs, calls, failed, stdin, received,
                   stdinEnded, readMode, sBuffer, waitingForConfirm, waitingForData,
                   interruptsReceived, inFlight, published, sent, quitStage, consumeVars,
                   toolVars>>

\* setReadMode(s): the read mode after the listener has seen chunk s
setReadMode(s) == IF readMode = "null" THEN s[1] ELSE readMode

\* readData without lines.pop(): the unterminated fragment is published too
linesToPublishWithoutPop(mode, buffer) ==
    IF mode = "{" THEN SplitLines(buffer) ELSE <<>>

\* readData without its test of readMode: every mode streams
linesToPublishInAnyMode(mode, buffer) ==
    SubSeq(SplitLines(buffer), 1, Len(SplitLines(buffer)) - 1)

\* the lines readData publishes from its buffer: all but the last, in stream mode
linesToPublish(mode, buffer) ==
    IF mode = "{"
    THEN LET lines == SplitLines(buffer) IN SubSeq(lines, 1, Len(lines) - 1)
    ELSE <<>>

\* what readData keeps in sBuffer
carryOver(mode, buffer) ==
    IF mode = "{" THEN LET lines == SplitLines(buffer) IN lines[Len(lines)]
    ELSE buffer

\* readData(s) in read mode mode; JSON.parse throwing ends the process
readData(s, mode) ==
    LET buffer == sBuffer \o s
        lines  == linesToPublish(mode, buffer)
        values == ParsedPrefix(lines)
    IN  /\ sBuffer' = carryOver(mode, buffer)
        /\ publish(values)
        /\ calls' = Called("publish", SumRoutes(FlattenAll(values)))
        /\ exitStatus' = IF Len(values) < Len(lines) THEN "uncaught" ELSE exitStatus

\* a 'data' event of process.stdin with the next k characters: setReadMode
\* (on the first chunk), then readData
stdinData(k) ==
    /\ Running /\ pc = "reading" /\ flowing = "flowing"
    /\ k \in 1..Len(stdin)
    /\ LET s == SubSeq(stdin, 1, k) IN
       /\ stdin' = SubSeq(stdin, k + 1, Len(stdin))
       /\ received' = received \o s
       /\ readMode' = setReadMode(s)
       /\ IF setReadMode(s) \notin {"[", "{"}
          THEN /\ exit
               /\ UNCHANGED <<sBuffer, waitingForConfirm, inFlight, published, sent,
                              calls>>
          ELSE readData(s, setReadMode(s))
    /\ UNCHANGED <<pc, connection, opts, specs, failed, publisher, flowing, stdinEnded,
                   waitingForData, interruptsReceived, quitStage, consumeVars,
                   toolVars>>

\* the 'end' event of process.stdin: doPublish, then startQuitting
stdinEnd ==
    /\ Running /\ pc = "reading" /\ flowing = "flowing"
    /\ stdin = <<>> /\ ~stdinEnded
    /\ stdinEnded' = TRUE
    /\ LET p      == JSONparse(sBuffer)
           leaves == IF sBuffer = <<>> THEN <<>> ELSE Flatten(p.val)
       IN IF sBuffer # <<>> /\ ~p.ok
          THEN /\ exitStatus' = "uncaught"
               /\ UNCHANGED <<waitingForConfirm, inFlight, published, sent, calls,
                              waitingForData, publisher, quitStage>>
          ELSE /\ publish(IF sBuffer = <<>> THEN <<>> ELSE <<p.val>>)
               /\ waitingForData' = FALSE
               /\ quit(checkForQuit(interruptsReceived, FALSE,
                                    waitingForConfirm + Len(leaves)),
                       SumRoutes(leaves))
    /\ UNCHANGED <<pc, connection, opts, specs, failed, stdin, received, flowing,
                   readMode, sBuffer, interruptsReceived, consumeVars,
                   toolVars>>

\* handleInterrupt without process.stdin.pause()
handleInterruptWithoutPause ==
    /\ Running
    /\ interruptsReceived' = interruptsReceived + 1
    /\ flowing' = flowing
    /\ waitingForData' = FALSE
    /\ quit(checkForQuit(interruptsReceived + 1, FALSE, waitingForConfirm), 0)
    /\ UNCHANGED <<pc, connection, opts, specs, failed, stdin, received, stdinEnded,
                   readMode, sBuffer, waitingForConfirm, inFlight, published, sent,
                   consumeVars,
                   toolVars>>

\* SIGINT or SIGTERM: handleInterrupt, which pauses stdin and calls startQuitting
handleInterrupt ==
    /\ Running
    /\ interruptsReceived' = interruptsReceived + 1
    /\ flowing' = "paused"
    /\ waitingForData' = FALSE
    /\ quit(checkForQuit(interruptsReceived + 1, FALSE, waitingForConfirm), 0)
    /\ UNCHANGED <<pc, connection, opts, specs, failed, stdin, received, stdinEnded,
                   readMode, sBuffer, waitingForConfirm, inFlight, published, sent,
                   consumeVars,
                   toolVars>>

\* the broker confirms one publishAsync of the i-th pending publish()
confirmed(i) ==
    /\ Running
    /\ i \in 1..Len(inFlight)
    /\ inFlight[i].left > 0 /\ ~inFlight[i].rejected
    /\ inFlight' = [inFlight EXCEPT ![i].left = @ - 1]
    /\ UNCHANGED <<commonVars, publisher, stdin, received, flowing, stdinEnded,
                   readMode, sBuffer, waitingForConfirm, waitingForData,
                   interruptsReceived, published, sent, quitStage, consumeVars,
                   toolVars>>

Remove(seq, i) == SubSeq(seq, 1, i - 1) \o SubSeq(seq, i + 1, Len(seq))

\* Promise.map of the i-th pending publish() is fulfilled: its then callback
allConfirmed(i) ==
    /\ Running
    /\ i \in 1..Len(inFlight)
    /\ inFlight[i].left = 0 /\ ~inFlight[i].rejected
    /\ inFlight' = Remove(inFlight, i)
    /\ waitingForConfirm' = waitingForConfirm - 1
    /\ quit(checkForQuit(interruptsReceived, waitingForData, waitingForConfirm - 1), 0)
    /\ UNCHANGED <<pc, connection, opts, specs, failed, stdin, received, flowing,
                   stdinEnded, readMode, sBuffer, waitingForData, interruptsReceived,
                   published, sent, consumeVars,
                   toolVars>>

\* the broker rejects one publishAsync: Promise.map is rejected, and publish()
\* put no rejection handler on it
publishRejected(i) ==
    /\ Running
    /\ i \in 1..Len(inFlight)
    /\ inFlight[i].left > 0 /\ ~inFlight[i].rejected
    /\ inFlight' = [inFlight EXCEPT ![i].rejected = TRUE]
    /\ failed' = TRUE
    /\ UNCHANGED <<pc, exitStatus, connection, opts, specs, calls, publisher, stdin,
                   received, flowing, stdinEnded, readMode, sBuffer, waitingForConfirm,
                   waitingForData, interruptsReceived, published, sent, quitStage,
                   consumeVars,
                   toolVars>>

\* publisher.close() resolved: then connection.close()
channelClosed ==
    /\ Running /\ quitStage = "closingChannel"
    /\ publisher' = "closed"
    /\ connection' = "closing"
    /\ quitStage' = "closingConnection"
    /\ calls' = Called("connection.close", 1)
    /\ UNCHANGED <<pc, exitStatus, opts, specs, failed, stdin, received, flowing,
                   stdinEnded, readMode, sBuffer, waitingForConfirm, waitingForData,
                   interruptsReceived, inFlight, published, sent, consumeVars,
                   toolVars>>

\* connection.close() resolved: nothing is left to wait for, the process ends
connectionClosed ==
    /\ Running /\ quitStage = "closingConnection"
    /\ connection' = "closed"
    /\ quitStage' = "done"
    /\ exitStatus' = "exit0"
    /\ UNCHANGED <<pc, opts, specs, calls, failed, publisher, stdin, received, flowing,
                   stdinEnded, readMode, sBuffer, waitingForConfirm, waitingForData,
                   interruptsReceived, inFlight, published, sent, consumeVars,
                   toolVars>>

\* a step of the set-up or of the close chain is rejected, or the connection
\* or the channel emits 'error': all of them run exit
publishFailure ==
    /\ Running
    /\ \/ pc = "connecting"                      \* AMQP.connect
       \/ pc = "creatingChannel"                 \* createConfirmChannel
       \/ connection \in {"open", "closing"}     \* connection.on('error', exit)
       \/ publisher \in {"open", "closing"}      \* publisher.on('error', exit)
       \/ quitStage = "closingChannel"           \* publisher.close
       \/ quitStage = "closingConnection"        \* connection.close
    /\ failed' = TRUE
    /\ exit
    /\ UNCHANGED <<pc, connection, opts, specs, calls, publishVars, consumeVars,
                   toolVars>>

PublishNext ==
    \/ connected
    \/ readAndPublish
    \/ \E k \in 1..Len(stdin) : stdinData(k)
    \/ stdinEnd
    \/ handleInterrupt
    \/ \E i \in 1..Len(inFlight) : confirmed(i)
    \/ \E i \in 1..Len(inFlight) : allConfirmed(i)
    \/ \E i \in 1..Len(inFlight) : publishRejected(i)
    \/ channelClosed
    \/ connectionClosed
    \/ publishFailure

PublishSpec == PublishInit /\ [][PublishNext]_vars

\* the steps of a session in which the broker rejects no call and no publish
\* and reports no error
PublishFairNext ==
    \/ connected
    \/ readAndPublish
    \/ \E k \in 1..Len(stdin) : stdinData(k)
    \/ stdinEnd
    \/ handleInterrupt
    \/ \E i \in 1..Len(inFlight) : confirmed(i)
    \/ \E i \in 1..Len(inFlight) : allConfirmed(i)
    \/ channelClosed
    \/ connectionClosed

\* process.stdin has a chunk to hand to its 'data' listener: the stream flows
\* and input is left.  stdinData(k) changes stdin whenever this holds, so this
\* is ENABLED <<\E k \in 1..Len(stdin) : stdinData(k)>>_vars.
stdinDataReady ==
    /\ Running /\ pc = "reading" /\ flowing = "flowing"
    /\ stdin # <<>>

\* process.stdin has its 'end' event to emit: the stream flows, the input is
\* used up and 'end' was not emitted.  stdinEnd changes stdinEnded whenever
\* this holds, so this is ENABLED <<stdinEnd>>_vars.
stdinEndReady ==
    /\ Running /\ pc = "reading" /\ flowing = "flowing"
    /\ stdin = <<>> /\ ~stdinEnded

\* That session with its callbacks run fairly: a callback whose event has
\* arrived (a resolved promise, a chunk or the end of the input stream while
\* it flows, a confirmation of the broker) is run by the event loop.  A
\* signal is not owed to the session.  The weak fairness of the two stream
\* events is written out, []<>~ENABLED <<A>>_vars \/ []<><<A>>_vars, with the
\* enabling condition above.
PublishFairSpec ==
    /\ PublishInit /\ [][PublishFairNext]_vars
    /\ WF_vars(connected)
    /\ WF_vars(readAndPublish)
    /\ ([]<>~stdinDataReady \/ []<><<\E k \in 1..Len(stdin) : stdinData(k)>>_vars)
    /\ ([]<>~stdinEndReady \/ []<><<stdinEnd>>_vars)
    /\ WF_vars(\E i \in 1..Len(inFlight) : confirmed(i))
    /\ WF_vars(\E i \in 1..Len(inFlight) : allConfirmed(i))
    /\ WF_vars(channelClosed)
    /\ WF_vars(connectionClosed)


-----------------------------------------------------------------------------
(* Inputs of the consume session *)

\* defaultValue: Infinity of the option max
Infinity == -1

MaxValues == {Infinity, 1, 2}

MinValues == {0, 2}

ConsumeOpts == [max : MaxValues, min : MinValues, indentation : {0, 2}, ack : BOOLEAN]

Queue(n)   == [kind |-> "cli.queue", of |-> n]
Binding(n) == [exchange   |-> [kind |-> "cli.exchange", of |-> n],
               routingKey |-> [kind |-> "cli.route", of |-> n]]

\* at least one specification is given, or the program prints its usage
ConsumeSpecs == { [queues |-> <<Queue(1)>>, bindings |-> <<>>],
                  [queues |-> <<Queue(1), Queue(2)>>, bindings |-> <<>>],
                  [queues |-> <<>>, bindings |-> <<Binding(1)>>],
                  [queues |-> <<Queue(1)>>, bindings |-> <<Binding(1)>>] }

\* publish.js is idle in a consume session
PublishIdle ==
    /\ publisher = "undefined"
    /\ stdin = <<>>
    /\ received = <<>>
    /\ flowing = "initial"
    /\ stdinEnded = FALSE
    /\ readMode = "null"
    /\ sBuffer = <<>>
    /\ waitingForConfirm = 0
    /\ waitingForData = TRUE
    /\ interruptsReceived = 0
    /\ inFlight = <<>>
    /\ published = <<>>
    /\ sent = <<>>
    /\ quitStage = "none"

ConsumeInit ==
    /\ pc = "connecting"
    /\ exitStatus = "running"
    /\ connection = "undefined"
    /\ opts \in ConsumeOpts
    /\ specs \in ConsumeSpecs
    /\ calls = [NoCalls EXCEPT !["connect"] = 1]
    /\ failed = FALSE
    /\ consumer = "undefined"
    /\ consumerTags = <<>>
    /\ counter = 0
    /\ info = <<>>
    /\ prefetch = NoPrefetch
    /\ handlers = FALSE
    /\ immediates = 0
    /\ scheduled = {}
    /\ shutdowns = <<>>
    /\ drains = <<>>
    /\ cancelled = FALSE
    /\ delivered = 0
    /\ output = <<>>
    /\ acked = {}
    /\ PublishIdle
    /\ ToolIdle

-----------------------------------------------------------------------------
(* consume.js *)

\* AMQP.connect resolved: createChannel
createChannel ==
    /\ Running /\ pc = "connecting"
    /\ connection' = "open"
    /\ pc' = "creatingChannel"
    /\ calls' = Called("createChannel", 1)
    /\ UNCHANGED <<exitStatus, opts, specs, failed, publishVars, consumeVars,
                   toolVars>>

\* createChannel resolved: prefetch when max is finite, checkQueue for every queue
checkAllQueues ==
    /\ Running /\ pc = "creatingChannel"
    /\ consumer' = "open"
    /\ prefetch' = IF opts.max # Infinity THEN opts.max ELSE prefetch
    /\ calls' = [calls EXCEPT !["prefetch"] = @ + IF opts.max # Infinity THEN 1 ELSE 0,
                              !["checkQueue"] = @ + Len(specs.queues)]
    /\ pc' = "checking"
    /\ UNCHANGED <<exitStatus, connection, opts, specs, failed, publishVars,
                   consumerTags, counter, info, handlers, immediates, scheduled, shutdowns, drains,
                   cancelled, delivered, output, acked,
                   toolVars>>

RECURSIVE SumCounts(_)
\* for (let q of info) { availMessages += q.messageCount }
SumCounts(replies) ==
    IF replies = <<>> THEN 0 ELSE Head(replies) + SumCounts(Tail(replies))

\* checkMinimumMessages without the count of the available messages
checkMinimumMessagesWithoutCount(replies) ==
    opts.min > 0 /\
        \/ Len(specs.bindings) > 0
        \/ (opts.max # Infinity /\ opts.min > opts.max)

\* checkMinimumMessages(info) throws
checkMinimumMessages(replies) ==
    opts.min > 0 /\
        \/ Len(specs.bindings) > 0
        \/ (opts.max # Infinity /\ opts.min > opts.max)
        \/ SumCounts(replies) < opts.min

\* a locally generated consumer tag for each queue
Tags(queues) == [i \in 1..Len(queues) |-> [kind |-> "cTag", of |-> i]]

\* every checkQueue resolved: checkMinimumMessages; without bindings
\* createDynamicBindings returns null and startConsuming follows at once,
\* with bindings it declares the queue
checkedAllQueues(replies) ==
    /\ Running /\ pc = "checking"
    /\ info' = replies
    /\ IF checkMinimumMessages(replies)
       THEN /\ exit
            /\ pc' = "checked"
            /\ UNCHANGED <<calls, consumerTags>>
       ELSE IF Len(specs.bindings) = 0
       THEN /\ pc' = "subscribing"
            /\ consumerTags' = Tags(specs.queues)
            /\ calls' = Called("consume", Len(specs.queues))
            /\ UNCHANGED exitStatus
       ELSE /\ pc' = "asserting"
            /\ calls' = Called("assertQueue", 1)
            /\ UNCHANGED <<exitStatus, consumerTags>>
    /\ UNCHANGED <<connection, opts, specs, failed, publishVars, consumer, counter,
                   prefetch, handlers, immediates, scheduled, shutdowns, drains, cancelled, delivered,
                   output, acked,
                   toolVars>>

\* assertQueue resolved: specs.queues.push(q.queue), bindQueue for every binding
bindAll ==
    /\ Running /\ pc = "asserting"
    /\ specs' = [specs EXCEPT !.queues = Append(@, [kind |-> "q.queue", of |-> 0])]
    /\ calls' = Called("bindQueue", Len(specs.bindings))
    /\ pc' = "binding"
    /\ UNCHANGED <<exitStatus, connection, opts, failed, publishVars, consumeVars,
                   toolVars>>

\* every bindQueue resolved: startConsuming
startConsuming ==
    /\ Running /\ pc = "binding"
    /\ consumerTags' = Tags(specs.queues)
    /\ calls' = Called("consume", Len(specs.queues))
    /\ pc' = "subscribing"
    /\ UNCHANGED <<exitStatus, connection, opts, specs, failed, publishVars, consumer,
                   counter, info, prefetch, handlers, immediates, scheduled, shutdowns, drains, cancelled,
                   delivered, output, acked,
                   toolVars>>

\* every consume resolved: process.on('SIGINT', shutdown), process.on('SIGTERM', shutdown)
consumingStarted ==
    /\ Running /\ pc = "subscribing"
    /\ handlers' = TRUE
    /\ pc' = "consuming"
    /\ UNCHANGED <<exitStatus, connection, opts, specs, calls, failed, publishVars,
                   consumer, consumerTags, counter, info, prefetch, immediates, scheduled,
                   shutdowns, drains, cancelled, delivered, output, acked,
                   toolVars>>

Tok(kind, n) == [tok |-> kind, msg |-> n]

\* gotMessage writing a message also when the counter has reached max
belowMaxOrAt(count) == opts.max = Infinity \/ count <= opts.max

\* counter < opts.max
belowMax(count) == opts.max = Infinity \/ count < opts.max

\* what gotMessage writes for message n when the counter is count
written(count, n) ==
    IF belowMax(count)
    THEN (IF opts.indentation # 0
          THEN <<Tok(IF count = 0 THEN "[" ELSE ",", 0)>> ELSE <<>>)
         \o <<Tok("object", n)>>
         \o (IF opts.indentation = 0 THEN <<Tok("newline", 0)>> ELSE <<>>)
    ELSE <<>>

\* gotMessage acknowledging whenever it does not schedule the shutdown
acksAlways(count) == count # opts.max

\* gotMessage calls consumer.ack(msg); count is the incremented counter
acks(count) == count # opts.max /\ opts.max = Infinity

\* the broker delivers a message to a consumer of the channel: gotMessage.
\* The queue the message comes from only goes into the object written.
gotMessage ==
    /\ Running /\ pc \in {"subscribing", "consuming"}
    /\ consumer = "open" /\ ~cancelled
    /\ delivered < MaxDeliveries
    /\ delivered' = delivered + 1
    /\ output' = output \o written(counter, delivered + 1)
    /\ counter' = counter + 1
    /\ immediates' = immediates + IF counter + 1 = opts.max THEN 1 ELSE 0
    /\ scheduled' = IF counter + 1 = opts.max THEN scheduled \cup {delivered + 1}
                    ELSE scheduled
    /\ acked' = IF acks(counter + 1) THEN acked \cup {delivered + 1} ELSE acked
    /\ calls' = Called("ack", IF acks(counter + 1) THEN 1 ELSE 0)
    /\ UNCHANGED <<pc, exitStatus, connection, opts, specs, failed, publishVars,
                   consumer, consumerTags, info, prefetch, handlers, shutdowns, drains,
                   cancelled,
                   toolVars>>

\* shutdown() without process.removeListener
shutdownKeepingHandlers ==
    /\ handlers' = handlers
    /\ IF consumer = "open"
       THEN /\ shutdowns' = Append(shutdowns, "cancelling")
            /\ calls' = Called("cancel", Len(consumerTags))
            /\ UNCHANGED exitStatus
       ELSE /\ exit
            /\ UNCHANGED <<shutdowns, calls>>

\* shutdown(): the handlers are removed, every tag is cancelled; cancel
\* throws when the channel is closing or closed
shutdown ==
    /\ handlers' = FALSE
    /\ IF consumer = "open"
       THEN /\ shutdowns' = Append(shutdowns, "cancelling")
            /\ calls' = Called("cancel", Len(consumerTags))
            /\ UNCHANGED exitStatus
       ELSE /\ exit
            /\ UNCHANGED <<shutdowns, calls>>

\* SIGINT or SIGTERM: shutdown when it is registered, else the signal's
\* default action ends the process
signal ==
    /\ Running
    /\ IF handlers
       THEN /\ shutdown
            /\ drains' = Append(drains, "signal")
       ELSE /\ exitStatus' = "killed"
            /\ UNCHANGED <<handlers, shutdowns, drains, calls>>
    /\ UNCHANGED <<pc, connection, opts, specs, failed, publishVars, consumer,
                   consumerTags, counter, info, prefetch, immediates, scheduled, cancelled,
                   delivered, output, acked,
                   toolVars>>

\* the callback of setImmediate(shutdown)
immediate ==
    /\ Running /\ immediates > 0
    /\ immediates' = immediates - 1
    /\ shutdown
    /\ drains' = Append(drains, "setImmediate")
    /\ UNCHANGED <<scheduled, pc, connection, opts, specs, failed, publishVars, consumer,
                   consumerTags, counter, info, prefetch, cancelled, delivered,
                   output, acked,
                   toolVars>>

\* closeConnections calling consumer.close() without Promise.delay(100)
closeConnectionsWithoutDelay(i) ==
    /\ Running
    /\ i \in 1..Len(shutdowns)
    /\ shutdowns[i] = "cancelling" /\ consumer = "open"
    /\ cancelled' = TRUE
    /\ output' = output \o (IF opts.indentation # 0 /\ counter # 0
                            THEN <<Tok("]", 0)>> ELSE <<>>)
    /\ calls' = [calls EXCEPT !["ackAll"] = @ + IF opts.ack THEN 1 ELSE 0,
                              !["close"] = @ + 1]
    /\ consumer' = "closing"
    /\ shutdowns' = [shutdowns EXCEPT ![i] = "closingChannel"]
    /\ UNCHANGED <<pc, exitStatus, connection, opts, specs, failed, publishVars,
                   consumerTags, counter, info, prefetch, handlers,
                   immediates, scheduled, delivered, acked, drains,
                   toolVars>>

\* every cancel of the i-th shutdown resolved: closeConnections writes the
\* closing bracket, calls ackAll (which throws on a channel that is closing
\* or closed) and starts the delay
closeConnections(i) ==
    /\ Running
    /\ i \in 1..Len(shutdowns)
    /\ shutdowns[i] = "cancelling" /\ consumer = "open"
    /\ cancelled' = TRUE
    /\ output' = output \o (IF opts.indentation # 0 /\ counter # 0
                            THEN <<Tok("]", 0)>> ELSE <<>>)
    /\ calls' = Called("ackAll", IF opts.ack THEN 1 ELSE 0)
    /\ shutdowns' = [shutdowns EXCEPT ![i] = "delaying"]
    /\ UNCHANGED <<pc, exitStatus, connection, opts, specs, failed, publishVars,
                   consumer, consumerTags, counter, info, prefetch, handlers,
                   immediates, scheduled, delivered, acked, drains,
                   toolVars>>

\* Promise.delay(100) of the i-th shutdown resolved: consumer.close(), which
\* throws on a channel that is closing or closed
delayed(i) ==
    /\ Running
    /\ i \in 1..Len(shutdowns)
    /\ shutdowns[i] = "delaying"
    /\ IF consumer = "open"
       THEN /\ consumer' = "closing"
            /\ shutdowns' = [shutdowns EXCEPT ![i] = "closingChannel"]
            /\ calls' = Called("close", 1)
            /\ UNCHANGED exitStatus
       ELSE /\ exit
            /\ UNCHANGED <<consumer, shutdowns, calls>>
    /\ UNCHANGED <<pc, connection, opts, specs, failed, publishVars, consumerTags,
                   counter, info, prefetch, handlers, immediates, scheduled, cancelled,
                   delivered, output, acked, drains,
                   toolVars>>

\* consumer.close() of the i-th shutdown resolved: connection.close().  The
\* closed channel rejects the calls still waiting for a reply, so another
\* shutdown that is still cancelling runs exit.
consumerClosed(i) ==
    /\ Running
    /\ i \in 1..Len(shutdowns)
    /\ shutdowns[i] = "closingChannel"
    /\ consumer' = "closed"
    /\ IF \E j \in 1..Len(shutdowns) : shutdowns[j] = "cancelling"
       THEN /\ exit
            /\ UNCHANGED <<connection, shutdowns, calls>>
       ELSE /\ connection' = "closing"
            /\ shutdowns' = [shutdowns EXCEPT ![i] = "closingConnection"]
            /\ calls' = Called("connection.close", 1)
            /\ UNCHANGED exitStatus
    /\ UNCHANGED <<pc, opts, specs, failed, publishVars, consumerTags, counter, info,
                   prefetch, handlers, immediates, scheduled, cancelled, delivered, output, acked, drains,
                   toolVars>>

\* connection.close() of the i-th shutdown resolved; the process ends when
\* no timer and no setImmediate callback is left
consumeConnectionClosed(i) ==
    /\ Running
    /\ i \in 1..Len(shutdowns)
    /\ shutdowns[i] = "closingConnection"
    /\ connection' = "closed"
    /\ shutdowns' = [shutdowns EXCEPT ![i] = "done"]
    /\ exitStatus' = IF immediates = 0 /\ \A j \in 1..Len(shutdowns) : shutdowns[j] # "delaying"
                     THEN "exit0" ELSE exitStatus
    /\ UNCHANGED <<pc, opts, specs, calls, failed, publishVars, consumer, consumerTags,
                   counter, info, prefetch, handlers, immediates, scheduled, cancelled, delivered,
                   output, acked, drains,
                   toolVars>>

\* a step of the set-up chain or of a shutdown is rejected, or the
\* connection or the channel emits 'error': all of them run exit
consumeFailure ==
    /\ Running
    /\ \/ pc \in {"connecting", "creatingChannel", "checking", "asserting",
                  "binding", "subscribing"}
       \/ connection \in {"open", "closing"}     \* conn.on('error', exit)
       \/ consumer \in {"open", "closing"}       \* channel.on('error', exit)
       \/ \E i \in 1..Len(shutdowns) :
             shutdowns[i] \in {"cancelling", "closingChannel", "closingConnection"}
    /\ failed' = TRUE
    /\ exit
    /\ UNCHANGED <<pc, connection, opts, specs, calls, publishVars, consumeVars,
                   toolVars>>

ConsumeNext ==
    \/ createChannel
    \/ checkAllQueues
    \/ \E replies \in [1..Len(specs.queues) -> 0..MaxCount] : checkedAllQueues(replies)
    \/ bindAll
    \/ startConsuming
    \/ consumingStarted
    \/ gotMessage
    \/ signal
    \/ immediate
    \/ \E i \in 1..Len(shutdowns) : closeConnections(i)
    \/ \E i \in 1..Len(shutdowns) : delayed(i)
    \/ \E i \in 1..Len(shutdowns) : consumerClosed(i)
    \/ \E i \in 1..Len(shutdowns) : consumeConnectionClosed(i)
    \/ consumeFailure

ConsumeSpec == ConsumeInit /\ [][ConsumeNext]_vars

-----------------------------------------------------------------------------
(* The specification parser applied to a command line *)

\* tokens of a command line
MaxTokens == 2
\* length of the tokens that are enumerated exhaustively
MaxTokenLen == 2

TokenChars == {"a", "b", "/"}

ShortTokens == UNION {[1..n -> TokenChars] : n \in 0..MaxTokenLen}

LongTokens == { <<"a", "/", "b">>,
                <<"a", "/", "b", "/", "a">>,
                <<"a", "/", "/", "b">>,
                <<"a", "/", "b", "/">>,
                <<"/", "a", "/", "b">>,
                <<"a", "b", "/", "b", "a", "/", "a">>,
                <<"b", "/", "a", "/", "a", "/", "b">> }

CommandLines == UNION {[1..n -> ShortTokens \cup LongTokens] : n \in 0..MaxTokens}

\* both sessions are idle
SessionIdle ==
    /\ pc = "connecting"
    /\ exitStatus = "running"
    /\ connection = "undefined"
    /\ opts = [max |-> Infinity, min |-> 0, indentation |-> 0, ack |-> FALSE]
    /\ specs = [queues |-> <<>>, bindings |-> <<>>]
    /\ calls = NoCalls
    /\ failed = FALSE
    /\ PublishIdle
    /\ ConsumeIdle

ParseInit ==
    /\ SessionIdle
    /\ argv \in CommandLines
    /\ parsed = NotParsed
    /\ declared = NoProps
    /\ props = NoProps
    /\ converted = NotConverted

\* const specs = parseSpecs(opts._unknown)
parseSpecs ==
    /\ ~parsed.called
    /\ parsed' = [called   |-> TRUE,
                  queues   |-> parseSpecifications(argv).queues,
                  bindings |-> parseSpecifications(argv).bindings]
    /\ UNCHANGED <<commonVars, publishVars, consumeVars, argv, declared, props, converted>>

ParseNext == parseSpecs

ParseSpec == ParseInit /\ [][ParseNext]_vars

-----------------------------------------------------------------------------
(* The content decoder applied to a delivered message *)

ContentEncodings == { <<>>,
                      <<"u", "t", "f", "8">>,
                      <<"U", "T", "F", "-", "8">>,
                      <<"u", "t", "f", "-", "8">>,
                      <<"U", "t", "f", "_", "8">>,
                      <<"h", "e", "x">>,
                      <<"H", "E", "X">>,
                      <<"a", "s", "c", "i", "i">>,
                      <<"U", "S", "-", "A", "S", "C", "I", "I">>,
                      <<"u", "t", "f", "1", "6", "l", "e">>,
                      <<"U", "T", "F", "-", "1", "6", "L", "E">>,
                      <<"u", "c", "s", "2">>,
                      <<"U", "C", "S", "-", "2">>,
                      <<"b", "i", "n", "a", "r", "y">>,
                      <<"B", "i", "n", "a", "r", "y">>,
                      <<"b", "a", "s", "e", "6", "4">>,
                      <<"B", "a", "s", "e", "-", "6", "4">>,
                      <<"f", "o", "o">>,
                      <<"F", "o", "o">>,
                      <<"g", "z", "i", "p">>,
                      <<"x", "-", "g", "z", "i", "p">>,
                      <<"-">>,
                      <<"l", "a", "t", "i", "n", "1">>,
                      <<"b", "a", "s", "e", "6", "4", ",", "f", "o", "o">>,
                      <<"u", "t", "f", "9">>,
                      <<"h", "e", "x", "x">>,
                      <<"8", "b", "i", "t">> }

ContentTypes == { <<>>,
                  <<"a", "p", "p", "l", "i", "c", "a", "t", "i", "o", "n", "/", "j", "s", "o", "n">>,
                  <<"a", "p", "p", "l", "i", "c", "a", "t", "i", "o", "n", "/", "j", "s", "o", "n", ";", " ", "c", "h", "a", "r", "s", "e", "t", "=", "u", "t", "f", "-", "8">>,
                  <<"a", "p", "p", "l", "i", "c", "a", "t", "i", "o", "n", "/", "j", "s", "o", "n", "p">>,
                  <<"t", "e", "x", "t", "/", "p", "l", "a", "i", "n">>,
                  <<"a", "p", "p", "l", "i", "c", "a", "t", "i", "o", "n", "/", "o", "c", "t", "e", "t", "-", "s", "t", "r", "e", "a", "m">>,
                  <<"A", "p", "p", "l", "i", "c", "a", "t", "i", "o", "n", "/", "J", "S", "O", "N">> }

DecodeInit ==
    /\ SessionIdle
    /\ argv = <<>>
    /\ parsed = NotParsed
    /\ declared \in [contentType : ContentTypes, contentEncoding : ContentEncodings]
    /\ props = declared
    /\ converted = NotConverted

\* createJSON(base, msg): convertContent(msg.content, msg.properties), then
\* the content is parsed as JSON for the type application/json, and a missing
\* content type of content that is no text is set to application/octet-stream
createJSON ==
    /\ ~converted.called
    /\ converted' = [called   |-> TRUE,
                     toString |-> convertContent(props).toString,
                     parse    |-> props.contentType = T_json]
    /\ props' = [contentEncoding |-> convertContent(props).contentEncoding,
                 contentType     |->
                     IF props.contentType = <<>> THEN T_octet ELSE props.contentType]
    /\ UNCHANGED <<commonVars, publishVars, consumeVars, argv, parsed, declared>>

DecodeNext == createJSON

DecodeSpec == DecodeInit /\ [][DecodeNext]_vars

-----------------------------------------------------------------------------
(* Properties of the publish session *)

IsPrefix(a, b) == Len(a) <= Len(b) /\ a = SubSeq(b, 1, Len(a))

\* the lines of text that are followed by a line terminator in text
TerminatedLines(text) ==
    LET lines == SplitLines(text) IN SubSeq(lines, 1, Len(lines) - 1)

\* what follows the last line terminator of text
Unterminated(text) ==
    LET lines == SplitLines(text) IN lines[Len(lines)]

\* the values of the lines, up to the first line that is no JSON
ValuesOf(lines) == FlattenAll(ParsedPrefix(lines))

\* C1: publisher.close() is called only when input has ended and
\* waitingForConfirm is zero: in no reachable state with input ended and a
\* confirmation outstanding, or with input not ended, has close been called
\* or the close chain been started.
C1_CloseOnlyWhenInputEndedAndConfirmed ==
    (calls["close"] > 0 \/ quitStage # "none") =>
        (~waitingForData /\ waitingForConfirm = 0)

\* C1 witness: input has ended, two values were published and confirmed,
\* and only then is the channel being closed
C1_Witness ==
    /\ stdinEnded /\ Len(published) = 2 /\ calls["publish"] >= 2
    /\ quitStage = "closingChannel" /\ calls["close"] = 1

\* C2: once a second interrupt has been handled the process has exited with
\* status 1, whatever was outstanding: the handler of the second signal
\* ends the process itself.
C2_SecondInterruptExits ==
    interruptsReceived > 1 => exitStatus = "exit1"

\* C2 witness: the second interrupt ended the process while confirmations
\* were outstanding and no close had been issued
C2_Witness ==
    /\ interruptsReceived = 2 /\ exitStatus = "exit1"
    /\ waitingForConfirm > 0 /\ calls["close"] = 0

C6_BatchModePublishesAtEnd ==
    readMode = "[" =>
        /\ ~stdinEnded => (published = <<>> /\ sBuffer = received)
        /\ (stdinEnded /\ exitStatus # "uncaught") =>
              (JSONparse(received).ok /\ published = Flatten(JSONparse(received).val))

\* C6 witness: a batch of two values received in more than one chunk has
\* been published at end-of-input
C6_Witness ==
    /\ readMode = "[" /\ stdinEnded /\ Len(published) = 2
    /\ published[1] # published[2]

\* what the decoder yields for text received in one chunk
UnsplitValues(text) ==
    ValuesOf(TerminatedLines(text) \o
             (IF Unterminated(text) = <<>> THEN <<>> ELSE <<Unterminated(text)>>))

\* C7: for an input of JSON lines separated by \n, \r\n or \r, however it is
\* cut into chunks, the decoder does not fail and has at end-of-input
\* published the values it publishes for the unsplit text.
C7_ChunkingDoesNotMatter ==
    (received \o stdin) \in StreamTexts =>
        /\ exitStatus # "uncaught"
        /\ stdinEnded => published = UnsplitValues(received)

\* C10 (publish session): after a broker failure (a rejected call, an
\* 'error' event) the process has exited with status 1.
C10_BrokerFailureIsTerminal ==
    failed => exitStatus = "exit1"

\* the routes given on the command line: the bindings, then every queue as a
\* routing key of the default exchange
CommandLineRoutes ==
    [i \in 1..(Len(specs.bindings) + Len(specs.queues)) |->
        IF i <= Len(specs.bindings) THEN specs.bindings[i]
        ELSE [exchange |-> NoName, routingKey |-> specs.queues[i - Len(specs.bindings)]]]

\* the route an envelope names itself
EnvelopeRoute(obj) ==
    IF opts.queue
    THEN [exchange |-> NoName, routingKey |-> [kind |-> "queue", of |-> obj.id]]
    ELSE [exchange   |-> [kind |-> "fields.exchange", of |-> obj.id],
          routingKey |-> [kind |-> "fields.routingKey", of |-> obj.id]]

DestinationRoutes(obj) ==
    IF obj.t = "obj" /\ obj.env /\ ~opts.nometa
    THEN Append(CommandLineRoutes, EnvelopeRoute(obj))
    ELSE CommandLineRoutes

RECURSIVE ExpectedCalls(_)
ExpectedCalls(values) ==
    IF values = <<>> THEN <<>>
    ELSE [i \in 1..Len(DestinationRoutes(Head(values))) |->
             [value |-> Head(values), route |-> DestinationRoutes(Head(values))[i]]]
         \o ExpectedCalls(Tail(values))

\* C13: the publish calls issued are, for each non-array value published in
\* turn, exactly one call per destination route: the routes of the command
\* line (bindings, then queues with the empty exchange) and, for an envelope
\* when metadata is not ignored, the envelope's own exchange and routing key
\* (in queue mode the empty exchange and the envelope's queue).
C13_OnePublishPerRoute ==
    /\ sent = ExpectedCalls(published)
    /\ calls["publish"] = Len(sent)

\* C13 witness: in queue mode, with a binding and a queue on the command
\* line, an envelope has gone to three routes, the last one its own queue
C13_Witness ==
    /\ opts.queue /\ ~opts.nometa /\ Len(specs.bindings) = 1 /\ Len(specs.queues) = 1
    /\ Len(sent) >= 3
    /\ sent[3].value.env /\ sent[3].route.routingKey.kind = "queue"
    /\ sent[1].value = sent[3].value

\* the pending publish() calls with a route not yet confirmed
Unconfirmed == {i \in 1..Len(inFlight) : inFlight[i].left > 0}

C14_Counts ==
    /\ waitingForConfirm >= 0
    /\ waitingForConfirm = Len(inFlight)
    /\ Cardinality(Unconfirmed) <= waitingForConfirm

C14_Step ==
    /\ Len(published') # Len(published) \/ waitingForConfirm' > waitingForConfirm
          => waitingForConfirm' - waitingForConfirm = Len(published') - Len(published)
    /\ waitingForConfirm' < waitingForConfirm
          => /\ waitingForConfirm' = waitingForConfirm - 1
             /\ \E i \in 1..Len(inFlight) :
                   /\ inFlight[i].left = 0 /\ ~inFlight[i].rejected
                   /\ inFlight' = Remove(inFlight, i)

C17_Stopped ==
    interruptsReceived >= 1 =>
        /\ flowing = "paused" /\ ~waitingForData
        /\ (interruptsReceived = 1 /\ waitingForConfirm = 0) => quitStage # "none"

C17_Step ==
    interruptsReceived >= 1 =>
        /\ received' = received /\ stdin' = stdin /\ stdinEnded' = stdinEnded
        /\ published' = published /\ sent' = sent /\ sBuffer' = sBuffer

\* C17: after the first interrupt the input is paused and marked as ended:
\* no further chunk is processed and the end of input is not, no further
\* value is dispatched to publish, and whenever waitingForConfirm is zero
\* the close of the channel has been started, end-of-input or not.
C17_FirstInterruptEndsInput ==
    []C17_Stopped /\ [][C17_Step]_vars

\* C17 witness: one interrupt with input left unread and a value still
\* unconfirmed; the channel is being closed after the confirmation
C17_Witness ==
    /\ interruptsReceived = 1 /\ ~stdinEnded /\ stdin # <<>>
    /\ Len(published) = 1 /\ waitingForConfirm = 0
    /\ quitStage = "closingChannel" /\ calls["close"] = 1

\* C19: with at most one interrupt, publisher.close() is called at most once
\* in a session.
C19_CloseIssuedAtMostOnce ==
    interruptsReceived <= 1 => calls["close"] <= 1

\* C20: the close chain of checkForQuit is started only when the confirm
\* channel has been created.
C20_CloseOnlyOnExistingChannel ==
    quitStage # "none" => publisher # "undefined"

\* input has ended or an interrupt was received: startQuitting has run
InputEnded == ~waitingForData

\* publisher.close() and then connection.close() have completed
ClosedBoth == quitStage = "done" /\ publisher = "closed" /\ connection = "closed"

\* C21: with the callbacks run fairly and every publish confirmed, once
\* input has ended or a first interrupt was received, and unless a second
\* interrupt forces the exit, the session eventually closes the channel and
\* then the connection.
C21_EventuallyClosesChannelThenConnection ==
    InputEnded ~> (ClosedBoth \/ interruptsReceived > 1)

\* with the callbacks run fairly and every publish confirmed, the session
\* does not stay for ever with input ended: the process ends
PublishSessionEnds ==
    InputEnded ~> exitStatus # "running"

\* and it ends by closing the channel and then the connection unless an
\* interrupt was received
PublishSessionClosesWithoutInterrupt ==
    InputEnded ~> ((ClosedBoth /\ exitStatus = "exit0") \/ interruptsReceived > 0)

-----------------------------------------------------------------------------
(* Properties of the consume session *)

Min(a, b) == IF a < b THEN a ELSE b

IsObject(token) == token.tok = "object"

\* the messages written to the output, in the order written
Emitted == [i \in 1..Len(SelectSeq(output, IsObject)) |-> SelectSeq(output, IsObject)[i].msg]

\* C3: with a finite max, the messages written are the first
\* min(deliveries, max) deliveries, in order, so a delivery after the counter
\* has reached max is not written; and setImmediate(shutdown) is called by
\* the delivery that makes the counter equal to max, and by no other.
C3_EmitsFirstMaxDeliveries ==
    opts.max # Infinity =>
        /\ Emitted = [i \in 1..Min(delivered, opts.max) |-> i]
        /\ scheduled = {n \in 1..delivered : n = opts.max}

\* C3 witness: max is 2, three messages were delivered, two were written
C3_Witness ==
    /\ opts.max = 2 /\ delivered = 3 /\ Len(Emitted) = 2 /\ scheduled = {2}

\* the set-up has gone past checkMinimumMessages
PastMinimumCheck == pc \notin {"connecting", "creatingChannel", "checking"}

\* C4: with a minimum greater than zero and (a) a binding given, or (b) the
\* minimum above the maximum, or (c) fewer messages available in the checked
\* queues than the minimum, no queue is declared or bound, no consume call
\* is issued and no message is delivered or written; and once the queues
\* have been checked the process has exited with status 1.
C4_MinimumGateAborts ==
    ( /\ opts.min > 0
      /\ \/ Len(specs.bindings) > 0
         \/ (opts.max # Infinity /\ opts.min > opts.max)
         \/ (PastMinimumCheck /\ SumCounts(info) < opts.min) )
    => /\ calls["assertQueue"] = 0 /\ calls["bindQueue"] = 0 /\ calls["consume"] = 0
       /\ consumerTags = <<>> /\ delivered = 0 /\ output = <<>>
       /\ PastMinimumCheck => exitStatus = "exit1"

\* C4 witness: min is 2, the one queue checked reported 1 message, and the
\* process has exited after the check
C4_Witness ==
    /\ opts.min = 2 /\ opts.max = Infinity /\ Len(specs.bindings) = 0
    /\ PastMinimumCheck /\ info = <<1>> /\ exitStatus = "exit1" /\ ~failed

Wrapper(n) ==
    [i \in 1..(2 * n) |-> IF i = 1 THEN "[" ELSE IF i % 2 = 0 THEN "object" ELSE ","]

TokenKinds == [i \in 1..Len(output) |-> output[i].tok]

\* C9: with indentation the output is one array: "[" before the first
\* object, "," before each later one, and at most one "]", which is the
\* last thing written; nothing is written when no object is.
C9_OutputIsOneArray ==
    opts.indentation # 0 =>
        \/ TokenKinds = Wrapper(Len(Emitted))
        \/ /\ Len(Emitted) > 0
           /\ TokenKinds = Wrapper(Len(Emitted)) \o <<"]">>

Stages == <<"cancelling", "delaying", "closingChannel", "closingConnection", "done">>

Rank(stage) == CHOOSE k \in 1..Len(Stages) : Stages[k] = stage

C15_Order ==
    /\ calls["cancel"] = Len(shutdowns) * Len(consumerTags)
    /\ \A i \in 1..Len(shutdowns) :
          Rank(shutdowns[i]) >= 2 => cancelled
    /\ calls["ackAll"] > 0 => cancelled
    /\ calls["close"] > 0 => \E i \in 1..Len(shutdowns) : Rank(shutdowns[i]) >= 3
    /\ calls["connection.close"] > 0 => consumer = "closed"
    /\ connection \in {"closing", "closed"} => consumer = "closed"

C15_Step ==
    /\ Len(shutdowns') >= Len(shutdowns)
    /\ \A i \in 1..Len(shutdowns) :
          Rank(shutdowns'[i]) \in {Rank(shutdowns[i]), Rank(shutdowns[i]) + 1}

\* C15 (as it holds): a drain cancels every registered consumer tag and
\* waits for all the cancellations; then, if the option ack was given,
\* whatever the maximum is, it calls ackAll; then it waits the delay; then
\* it closes the channel; and it closes the connection only after the
\* channel has been closed.  No step of a drain starts before the one
\* before it has completed.
C15_DrainOrder ==
    /\ [](C15_Order /\ (calls["ackAll"] > 0 => opts.ack)
                    /\ \A i \in 1..Len(shutdowns) :
                          (Rank(shutdowns[i]) >= 2 /\ opts.ack) => calls["ackAll"] > 0)
    /\ [][C15_Step]_vars

\* C15 witness: a drain with the option ack has run to its end
C15_Witness ==
    /\ opts.ack /\ shutdowns = <<"done">> /\ calls["ackAll"] = 1
    /\ calls["close"] = 1 /\ calls["connection.close"] = 1 /\ exitStatus = "exit0"

\* C15 (as stated): the same order, with the bulk acknowledgement made when
\* manual acknowledgement was in effect, that is when a finite maximum had
\* the broker hold the messages without acknowledgement.
C15_DrainOrderAsStated ==
    /\ C15_Order
    /\ \A i \in 1..Len(shutdowns) :
          (Rank(shutdowns[i]) >= 2 /\ opts.max # Infinity) => calls["ackAll"] > 0

\* the drains a signal has started
SignalDrains == {i \in 1..Len(drains) : drains[i] = "signal"}

C16_Step ==
    /\ (Len(drains') > Len(drains) /\ drains'[Len(drains')] = "signal")
          => (handlers /\ ~handlers' /\ pc = "consuming")
    /\ (handlers /\ ~handlers') => Len(drains') = Len(drains) + 1
    /\ (pc = "consuming" /\ ~handlers) => ~handlers'

\* C16: a signal received while consuming (the handlers are registered)
\* starts the drain and removes both handlers, which are never registered
\* again; so signals start the drain at most once in a session, and a
\* later signal starts no drain.
C16_SignalsDrainOnce ==
    /\ [](Cardinality(SignalDrains) <= 1 /\ (SignalDrains # {} => ~handlers))
    /\ [][C16_Step]_vars

\* C16 witness: a second signal arrived after the first had started the
\* drain; there is still one drain
C16_Witness ==
    /\ drains = <<"signal">> /\ Len(shutdowns) = 1 /\ exitStatus = "killed"

\* C18: shutdown() runs at most once in a session.
C18_DrainStartedAtMostOnce ==
    Len(drains) <= 1

-----------------------------------------------------------------------------
(* Properties of the content decoder and of the specification parser *)

\* the declared encoding in lower case without its non-alphanumeric characters
Tag == replaceNonAlnum(toLowerCase(declared.contentEncoding))

\* the policy table for a tag that is not empty
PolicyTable ==
    [t \in {E_hex, E_ascii, E_utf8, E_utf16le, E_ucs2, E_binary, E_base64} |->
        CASE t = E_hex     -> E_hex
          [] t = E_ascii   -> E_ascii
          [] t = E_utf8    -> E_utf8
          [] t = E_utf16le -> E_utf8
          [] t = E_ucs2    -> E_utf8
          [] t = E_binary  -> E_base64
          [] t = E_base64  -> E_base64]

\* C11: the decoder records the contentEncoding the policy table gives for
\* the declared encoding, lower-cased and without its non-alphanumeric
\* characters: utf8 for no encoding and a JSON content type, the table's
\* entry for hex, ascii, utf8, utf16le, ucs2, binary and base64, base64 for
\* no encoding otherwise, and "base64," followed by the tag for any other
\* tag; so the recorded value is utf8, ascii, hex, base64 or "base64,<tag>".
C11_RecordedContentEncoding ==
    converted.called =>
        /\ props.contentEncoding =
              IF Tag = <<>>
              THEN (IF StartsWith(declared.contentType, T_json) THEN E_utf8 ELSE E_base64)
              ELSE IF Tag \in DOMAIN PolicyTable THEN PolicyTable[Tag]
              ELSE E_base64 \o <<",">> \o Tag
        /\ \/ props.contentEncoding \in {E_utf8, E_ascii, E_hex, E_base64}
           \/ /\ StartsWith(props.contentEncoding, E_base64 \o <<",">>)
              /\ Len(props.contentEncoding) > Len(E_base64) + 1

\* C11 witness: the encoding "Foo" has been recorded as "base64,foo"
C11_Witness ==
    /\ converted.called
    /\ declared.contentEncoding = <<"F", "o", "o">>
    /\ props.contentEncoding = E_base64 \o <<",", "f", "o", "o">>

\* the positions of "/" in a token
Slashes(t) == {i \in 1..Len(t) : t[i] = "/"}

\* the position of the k-th "/" of t; 0 for k = 0, and the position after
\* the token for the one after the last
SlashAt(t, k) ==
    IF k = 0 THEN 0
    ELSE IF k > Cardinality(Slashes(t)) THEN Len(t) + 1
    ELSE CHOOSE i \in Slashes(t) : Cardinality({j \in Slashes(t) : j <= i}) = k

\* the k-th segment of t, counted from 0
Segment(t, k) == SubSeq(t, SlashAt(t, k) + 1, SlashAt(t, k + 1) - 1)

\* exchange/route1/.../routeN with N >= 1 and no empty segment
IsBindingToken(t) ==
    /\ Slashes(t) # {}
    /\ \A k \in 0..Cardinality(Slashes(t)) : Segment(t, k) # <<>>

IsQueueToken(t) == ~IsBindingToken(t)

\* the bindings a token stands for
BindingsOf(t) ==
    IF IsBindingToken(t)
    THEN [k \in 1..Cardinality(Slashes(t)) |->
             [exchange |-> Segment(t, 0), routingKey |-> Segment(t, k)]]
    ELSE <<>>

RECURSIVE AllBindingsOf(_)
AllBindingsOf(tokens) ==
    IF tokens = <<>> THEN <<>>
    ELSE BindingsOf(Head(tokens)) \o AllBindingsOf(Tail(tokens))

\* C12: the parser's queues are the tokens that are not of the form
\* exchange/route1/.../routeN, in the order given; its bindings are, in the
\* order of the tokens, the N bindings of each token of that form: its
\* exchange with route1..routeN in order.  So a token yields one queue name
\* or at least one binding, never both.
C12_TokensToQueuesAndBindings ==
    parsed.called =>
        /\ parsed.queues = SelectSeq(argv, IsQueueToken)
        /\ parsed.bindings = AllBindingsOf(argv)
        /\ \A i \in 1..Len(argv) :
              LET one == parseSpecifications(<<argv[i]>>) IN
              \/ one.queues = <<argv[i]>> /\ one.bindings = <<>>
              \/ one.queues = <<>> /\ Len(one.bindings) >= 1

\* C12 witness: a queue name, then a token with two routes
C12_Witness ==
    /\ parsed.called
    /\ argv = << <<"a", "b">>, <<"a", "/", "b", "/", "a">> >>
    /\ parsed.queues = << <<"a", "b">> >>
    /\ Len(parsed.bindings) = 2
    /\ parsed.bindings[1].routingKey = <<"b">>
    /\ parsed.bindings[2].routingKey = <<"a">>

=============================================================================
